---------------------------- MODULE Spec2Model ----------------------------
(***************************************************************************)
(* A model of kano/network.py: the wireless connection orchestrator        *)
(* (connect, do_connect, do_wait_for_dhcp, wpa_conf), the secret-length    *)
(* validation of connect(), and the scanner (IWList.refresh, getList).     *)
(*                                                                         *)
(* The specifications of the module:                                       *)
(*   Spec      one call of connect() running against its environment: the  *)
(*             wpa_cli control client (writes lines, exits) and the DHCP    *)
(*             marker file;                                                 *)
(*   SpecKey   the secret-length validation of connect() applied to every  *)
(*             secret up to MaxKeyLen characters;                           *)
(*   SpecFair  one WPA connection where connect() takes every step it has; *)
(*   SpecScan  IWList: a scan, its parse, getList(), and refresh() again;  *)
(*   SpecList  getList() on the cells of three networks;                   *)
(*   SpecConstruct  IWList.__init__ where the environment names a country; *)
(*   SpecCache KwifiCache under save, empty, get and get_latest;           *)
(*   SpecDisconnect  disconnect() on that cache;                           *)
(*   SpecCountry  get_wireless_country over the environment;               *)
(*   SpecCallers  several programs calling connect() side by side.         *)
(***************************************************************************)
EXTENDS Integers, Sequences, FiniteSets, TLC

\* Return codes of connect() and do_connect()
RC_CONNECTED == 0
RC_BAD_PASSWORD == 1
RC_AP_NOT_IN_RANGE == 2
RC_NO_DHCP_LEASE == 3
RC_INCORRECT_PASSWORD_LEN == 4
RC_INTERNAL_ERROR == 5

\* do_connect: number of WPS-AP-AVAILABLE lines taken as "AP not in range"
max_scans == 3

\* Bounds of the model
MaxLines == 3
MaxPipe == 2
MaxTimeout == 2
MaxKeyLen == 120
MaxCells == 2
MaxNets == 3
\* Programs that call connect() side by side
MaxCallers == 2
\* Calls of disconnect() that run their commands
MaxDisconnects == 2

ReturnCodes ==
    {RC_CONNECTED, RC_BAD_PASSWORD, RC_AP_NOT_IN_RANGE, RC_NO_DHCP_LEASE,
     RC_INCORRECT_PASSWORD_LEN, RC_INTERNAL_ERROR}

(***************************************************************************)
(* Secrets.  The code looks at a secret only through startswith('hex') and *)
(* len(); a secret is modelled by these two, and an absent secret (the     *)
(* default seckey=None) by none = TRUE.  A secret that starts with 'hex'   *)
(* has at least three characters.                                          *)
(***************************************************************************)
NoKey == [none |-> TRUE, hex |-> FALSE, len |-> 0]

Key(h, n) == [none |-> FALSE, hex |-> h, len |-> n]

\* The secrets one call of connect() is given in Spec
KeySamples == {NoKey, Key(FALSE, 4), Key(FALSE, 10), Key(TRUE, 13)}

\* A slip in the WEP check: an unmarked key of hex length is turned away
WepLengthOK_AsciiOnly(k) ==
    IF ~k.hex
      THEN k.len \in {5, 13, 58}
      ELSE ~(k.len \notin {10 + 3, 26 + 3, 116 + 3})

\* connect(), encrypt == 'wep': TRUE when the length check lets the key pass
WepLengthOK(k) ==
    IF ~k.hex
      THEN k.len \in {5, 13, 58} \/ k.len \in {10, 26, 116}
      ELSE ~(k.len \notin {10 + 3, 26 + 3, 116 + 3})

\* connect(), encrypt == 'wep': the key handed to wpa_conf ('hex' is
\* prepended to a key of hex length that does not carry it)
WepKeyForConf(k) ==
    IF ~k.hex /\ k.len \notin {5, 13, 58} /\ k.len \in {10, 26, 116}
      THEN Key(TRUE, k.len + 3)
      ELSE k

\* A slip in the WPA check: a passphrase of eight characters is turned away
WpaLengthOK_OffByOne(k) ==
    IF ~k.hex
      THEN ~(k.len <= 8 \/ k.len > 63)
      ELSE TRUE

\* connect(), encrypt == 'wpa': TRUE when the length check lets the key pass
WpaLengthOK(k) ==
    IF ~k.hex
      THEN ~(k.len < 8 \/ k.len > 63)
      ELSE TRUE

(***************************************************************************)
(* Lines of the control client.  do_connect looks at a line only through   *)
(* find() of four substrings; a line is modelled by the set of those it    *)
(* contains: "C" CTRL-EVENT-CONNECTED, "W" reason=WRONG_KEY,               *)
(* "F" reason=CONN_FAILED, "S" WPS-AP-AVAILABLE.                           *)
(***************************************************************************)
LineKinds == {{}, {"C"}, {"W"}, {"F"}, {"S"}, {"C", "W"}}

\* readline() at end of file gives '', which contains none of them
EofLine == {}

\* How cli.poll() is written: <<>> is None, <<s>> the exit status s
None == <<>>

\* Exit statuses of the control client
ExitStatuses == {0, 255}

VARIABLES
    \* ---- connect(): parameters and the caller's environment
    encrypt,        \* "off", "wep", "wpa"
    seckey,         \* a secret or NoKey
    custom,         \* wpa_custom_file is given
    timeout,        \* connect_timeout
    pidfile,        \* KANO_CONNECT_PIDFILE is readable
    kanoConnect,    \* sys.argv[0] contains 'kano-connect'
    \* ---- connect() and do_connect(): locals and position
    pc,             \* position in connect()
    rc,             \* do_connect's rc: None or <<code>>
    ret,            \* what connect() returned: None until it returns
    scans,          \* do_connect's scans
    attempt,        \* do_wait_for_dhcp: iterations of its loop done
    wifi_conf_file, \* "none", "custom" or "generated"
    conf_failed,    \* what failed in wpa_conf: "none", "passphrase" or "write"
    conf_key,       \* the key wpa_conf was given (NoKey: not called)
    \* ---- the world connect() acts on
    cmds,           \* external commands and side effects, in order
    cli,            \* control client: "none", "running", "exited"
    cli_status,     \* its exit status once exited
    pipe,           \* lines it wrote that do_connect has not read
    nwritten,       \* how many lines it wrote
    quits,          \* 'quit' commands written to its stdin
    marker,         \* INTERNET_UP_FILE exists
    \* ---- history
    cls,            \* how the read loop ended
    out_first,      \* the first terminal event of the lines written so far
    out_scans,      \* WPS-AP-AVAILABLE lines written before that event
    wk_line,        \* a WRONG_KEY line was written and no terminal line before it
    out_cwf,        \* a line with CONNECTED, WRONG_KEY or CONN_FAILED was written
    checks,         \* existence checks of the marker done by do_wait_for_dhcp
    sleeps,         \* one-second sleeps done by do_wait_for_dhcp
    saw_marker,     \* a check found the marker
    \* ---- IWList
    scan_pc,        \* "idle", "refresh" (in the scanning loop) or "ready"
    data,           \* self.data: cell number -> parsed cell
    tries,          \* refresh(): scan attempts made
    elapsed,        \* refresh(): time.time() - start_time, in ticks of 100 ms
    listed,         \* what the last call of getList() gave
    scanned,        \* the cell blocks of the output self.data was parsed from
    naps,           \* refresh(): calls of time.sleep(0.2) made
    \* ---- KwifiCache
    cache_file,     \* the cache file: <<>> when absent, <<entry>> its JSON text
    cache_saved,    \* the arguments of the last save() if no empty() followed
    cache_out,      \* the last call on the cache and what it returned
    \* ---- get_wireless_country
    environ,        \* os.environ: KANO_WIFI_COUNTRY and LANG
    country,        \* the call of get_wireless_country and what it gave
    \* ---- the programs that call connect()
    callers         \* for each: whether it is kano-connect, and where it is

connVars ==
    <<encrypt, seckey, custom, timeout, pidfile, kanoConnect, pc, rc, ret,
      scans, attempt, wifi_conf_file, conf_key, cmds, cli, cli_status, pipe,
      nwritten, quits, marker, cls, out_first, out_scans, wk_line, out_cwf,
      checks, sleeps, saw_marker, conf_failed>>

scanVars == <<scan_pc, data, tries, elapsed, listed, scanned, naps>>

cacheVars == <<cache_file, cache_saved, cache_out>>

countryVars == <<environ, country>>

callerVars == <<callers>>

vars == <<connVars, scanVars, cacheVars, countryVars, callerVars>>

\* No second program is looked at
CallersIdle == callers = [pidfile |-> FALSE, procs |-> <<>>]

Active == pc \notin {"idle", "done", "raised"}

\* The state of the locals and of the world before connect() runs
ConnFresh ==
    /\ rc = None
    /\ conf_failed = "none"
    /\ ret = None
    /\ scans = 0
    /\ attempt = 0
    /\ wifi_conf_file = "none"
    /\ conf_key = NoKey
    /\ cmds = <<>>
    /\ cli = "none"
    /\ cli_status = 0
    /\ pipe = <<>>
    /\ nwritten = 0
    /\ quits = 0
    /\ cls = "none"
    /\ out_first = "none"
    /\ out_scans = 0
    /\ wk_line = FALSE
    /\ out_cwf = FALSE
    /\ checks = 0
    /\ sleeps = 0
    /\ saw_marker = FALSE

\* The values of connect_timeout: no wait at all, and the longest wait
Timeouts == {0, MaxTimeout}

ConnInit ==
    /\ encrypt \in {"off", "wep", "wpa"}
    /\ seckey \in KeySamples
    /\ custom \in BOOLEAN
    /\ timeout \in Timeouts
    /\ pidfile \in BOOLEAN
    /\ kanoConnect \in BOOLEAN
    /\ marker = FALSE
    /\ pc = "start"
    /\ ConnFresh

\* getList() was not called
NotListed ==
    [status |-> "none", list |-> <<>>, unsecure |-> FALSE, first |-> FALSE,
     order |-> <<>>]

\* get_wireless_country was not called; the environment holds neither variable
NotCalled ==
    [called |-> FALSE, enable_driver |-> FALSE, code |-> <<>>,
     reg_set |-> <<>>]

CountryIdle ==
    /\ environ = [KANO_WIFI_COUNTRY |-> <<>>, LANG |-> <<>>]
    /\ country = NotCalled

\* No call was made on the cache, and its file is not there
NoCall == [call |-> "none", arg |-> <<>>, result |-> <<>>]

CacheIdle ==
    /\ cache_file = <<>>
    /\ cache_saved = <<>>
    /\ cache_out = NoCall

\* No scanner is at work
ScanIdle ==
    /\ scan_pc = "idle"
    /\ data = <<>>
    /\ tries = 0
    /\ elapsed = 0
    /\ listed = NotListed
    /\ scanned = <<>>
    /\ naps = 0

Return(code) ==
    /\ ret' = <<code>>
    /\ pc' = "done"

\* An exception nothing in connect() catches leaves connect()
Raise ==
    /\ ret' = None
    /\ pc' = "raised"


params == <<encrypt, seckey, custom, timeout, pidfile, kanoConnect>>

clientVars ==
    <<cli, cli_status, pipe, nwritten, out_first, out_scans, wk_line, out_cwf>>

dhcpVars == <<attempt, checks, sleeps, saw_marker>>

(***************************************************************************)
(* connect()                                                               *)
(***************************************************************************)

\* A slip in the guard: the caller is not looked at
PidGuard_NoOwnerTest ==
    /\ pc = "start"
    /\ cmds' = IF pidfile
                 THEN cmds \o <<"pkill kano-connect", "sleep">>
                 ELSE cmds
    /\ pc' = "reset"
    /\ UNCHANGED <<callerVars, countryVars, cacheVars, scanVars, params, conf_failed,
                   rc, ret, scans, wifi_conf_file, conf_key, quits,
                   marker, cls, clientVars, dhcpVars>>

\* connect(): the concurrent-caller guard
PidGuard ==
    /\ pc = "start"
    /\ cmds' = IF pidfile /\ ~kanoConnect
                 THEN cmds \o <<"pkill kano-connect", "sleep">>
                 ELSE cmds
    /\ pc' = "reset"
    /\ UNCHANGED <<callerVars, countryVars, cacheVars, scanVars, params, conf_failed,
                   rc, ret, scans, wifi_conf_file, conf_key, quits,
                   marker, cls, clientVars, dhcpVars>>

\* connect(): the supplicant is terminated and the interface reset
InterfaceReset ==
    /\ pc = "reset"
    /\ cmds' = cmds \o <<"wpa_cli terminate", "iwconfig power off",
                         "ifconfig down", "iwconfig essid",
                         "iwconfig mode managed", "ifconfig up">>
    /\ pc' = "select"
    /\ UNCHANGED <<callerVars, countryVars, cacheVars, scanVars, params, conf_failed,
                   rc, ret, scans, wifi_conf_file, conf_key, quits,
                   marker, cls, clientVars, dhcpVars>>

\* connect(): if wpa_custom_file, the supplicant is given the user's file
UseCustomFile ==
    /\ custom
    /\ wifi_conf_file' = "custom"
    /\ pc' = "do_connect"
    /\ UNCHANGED <<ret, conf_key>>

\* connect(): elif encrypt == 'wep'.  seckey.startswith raises on an absent
\* secret; a bad length returns before wpa_conf is called.
WepBranch ==
    /\ ~custom
    /\ encrypt = "wep"
    /\ wifi_conf_file' = wifi_conf_file
    /\ IF seckey.none
         THEN Raise /\ conf_key' = conf_key
         ELSE IF ~WepLengthOK(seckey)
           THEN Return(RC_INCORRECT_PASSWORD_LEN) /\ conf_key' = conf_key
           ELSE /\ conf_key' = WepKeyForConf(seckey)
                /\ pc' = "wpa_conf"
                /\ ret' = ret

\* A slip in the order of the branches: the WPA length is checked whether
\* or not a custom file was given
WpaBranch_BeforeCustomFile ==
    /\ encrypt = "wpa"
    /\ wifi_conf_file' = wifi_conf_file
    /\ IF seckey.none
         THEN Raise /\ conf_key' = conf_key
         ELSE IF ~WpaLengthOK(seckey)
           THEN Return(RC_INCORRECT_PASSWORD_LEN) /\ conf_key' = conf_key
           ELSE /\ conf_key' = seckey
                /\ pc' = "wpa_conf"
                /\ ret' = ret

\* connect(): elif encrypt == 'wpa'
WpaBranch ==
    /\ ~custom
    /\ encrypt = "wpa"
    /\ wifi_conf_file' = wifi_conf_file
    /\ IF seckey.none
         THEN Raise /\ conf_key' = conf_key
         ELSE IF ~WpaLengthOK(seckey)
           THEN Return(RC_INCORRECT_PASSWORD_LEN) /\ conf_key' = conf_key
           ELSE /\ conf_key' = seckey
                /\ pc' = "wpa_conf"
                /\ ret' = ret

\* A slip in the open-network branch: it falls through to do_connect
OpenNetwork_FallsThrough ==
    /\ ~custom
    /\ encrypt = "off"
    /\ pc' = "do_connect"
    /\ UNCHANGED <<ret, wifi_conf_file, conf_key>>

\* connect(): elif encrypt == 'off': only the DHCP wait
OpenNetwork ==
    /\ ~custom
    /\ encrypt = "off"
    /\ pc' = "dhcp"
    /\ UNCHANGED <<ret, wifi_conf_file, conf_key>>

\* connect(): the branch on wpa_custom_file and encrypt
SelectConfig ==
    /\ pc = "select"
    /\ \/ UseCustomFile
       \/ WepBranch
       \/ WpaBranch
       \/ OpenNetwork
    /\ UNCHANGED <<callerVars, countryVars, cacheVars, scanVars, params, conf_failed,
                   rc, scans, cmds, quits, marker, cls, clientVars,
                   dhcpVars>>

\* wpa_conf(), and connect()'s use of its result.  A plain-text WPA secret
\* goes through wpa_passphrase, whose failure makes wpa_conf return False;
\* the configuration file is then opened for writing, which may raise.
wpa_conf ==
    /\ pc = "wpa_conf"
    /\ \E passphrase_ok \in BOOLEAN, write_ok \in BOOLEAN :
         LET plain_wpa == encrypt # "wep" /\ ~conf_key.hex
             cmds1 == IF plain_wpa THEN Append(cmds, "wpa_passphrase") ELSE cmds
         IN  IF plain_wpa /\ ~passphrase_ok
               THEN /\ cmds' = cmds1
                    /\ Return(RC_INTERNAL_ERROR)
                    /\ wifi_conf_file' = wifi_conf_file
                    /\ conf_failed' = "passphrase"
               ELSE IF ~write_ok
                 THEN /\ cmds' = cmds1
                      /\ Raise
                      /\ wifi_conf_file' = wifi_conf_file
                      /\ conf_failed' = "write"
                 ELSE /\ cmds' = Append(cmds1, "write config")
                      /\ wifi_conf_file' = "generated"
                      /\ pc' = "do_connect"
                      /\ ret' = ret
                      /\ conf_failed' = conf_failed
    /\ UNCHANGED <<callerVars, countryVars, cacheVars, scanVars, params,
                   rc, scans, conf_key, quits, marker, cls,
                   clientVars, dhcpVars>>

(***************************************************************************)
(* do_connect()                                                            *)
(***************************************************************************)

\* cli.poll()
poll == IF cli = "exited" THEN <<cli_status>> ELSE None

\* The if/elif chain of the read loop: the terminal event of one line
Classify(line) ==
    IF "C" \in line THEN "connected"
    ELSE IF "W" \in line THEN "wrongkey"
    ELSE IF "F" \in line THEN "connfailed"
    ELSE "none"

\* The return code the read loop sets for a terminal event
CodeOf(event) ==
    CASE event = "connected" -> RC_CONNECTED
      [] event = "wrongkey" -> RC_BAD_PASSWORD
      [] event = "connfailed" -> RC_AP_NOT_IN_RANGE
      [] event = "scanlimit" -> RC_AP_NOT_IN_RANGE

\* do_connect(): the supplicant daemon is started, then the control client
LaunchSupplicant ==
    /\ pc = "do_connect"
    /\ cmds' = cmds \o <<"wpa_supplicant", "wpa_cli">>
    /\ cli' = "running"
    /\ rc' = None
    /\ scans' = 0
    /\ pc' = "first_poll"
    /\ UNCHANGED <<callerVars, countryVars, cacheVars, scanVars, params, conf_failed,
                   ret, wifi_conf_file, conf_key, quits, marker, cls,
                   cli_status, pipe, nwritten, out_first, out_scans, wk_line,
                   out_cwf, dhcpVars>>

\* do_connect(): time.sleep(1); rc = cli.poll(); while rc is None
FirstPoll ==
    /\ pc = "first_poll"
    /\ rc' = poll
    /\ pc' = IF poll = None THEN "read" ELSE "after"
    /\ cls' = IF poll = None THEN cls ELSE "exit"
    /\ UNCHANGED <<callerVars, countryVars, cacheVars, scanVars, params, conf_failed,
                   ret, scans, wifi_conf_file, conf_key, cmds, quits,
                   marker, clientVars, dhcpVars>>

\* A slip at a terminal event: the loop is left without close_wpa_cli()
CloseAndBreak_NoQuit(event) ==
    /\ cls' = event
    /\ quits' = quits
    /\ rc' = <<CodeOf(event)>>
    /\ pc' = "after"
    /\ ret' = ret

\* close_wpa_cli() and the assignment and break that follow it.  Writing to
\* the stdin pipe of a client that has exited raises (broken pipe).
CloseAndBreak(event) ==
    /\ cls' = event
    /\ IF cli = "exited"
         THEN /\ Raise
              /\ UNCHANGED <<rc, quits>>
         ELSE /\ quits' = quits + 1
              /\ rc' = <<CodeOf(event)>>
              /\ pc' = "after"
              /\ ret' = ret

\* do_connect(): one readline() and its classification.  readline() blocks
\* while the pipe is empty and the client runs, and gives '' at end of file.
ReadLine ==
    /\ pc = "read"
    /\ pipe # <<>> \/ cli = "exited"
    /\ LET output == IF pipe # <<>> THEN Head(pipe) ELSE EofLine
       IN  /\ pipe' = IF pipe # <<>> THEN Tail(pipe) ELSE pipe
           /\ IF Classify(output) # "none"
                THEN CloseAndBreak(Classify(output)) /\ scans' = scans
                ELSE IF "S" \in output
                  THEN /\ scans' = scans + 1
                       /\ IF scans + 1 = max_scans
                            THEN CloseAndBreak("scanlimit")
                            ELSE /\ pc' = "poll"
                                 /\ UNCHANGED <<rc, ret, quits, cls>>
                  ELSE /\ pc' = "poll"
                       /\ UNCHANGED <<rc, ret, quits, cls, scans>>
    /\ UNCHANGED <<callerVars, countryVars, cacheVars, scanVars, params, conf_failed,
                   wifi_conf_file, conf_key, cmds, marker, cli,
                   cli_status, nwritten, out_first, out_scans, wk_line, out_cwf,
                   dhcpVars>>

\* do_connect(): rc = cli.poll() at the end of the loop body
PollClient ==
    /\ pc = "poll"
    /\ rc' = poll
    /\ pc' = IF poll = None THEN "read" ELSE "after"
    /\ cls' = IF poll = None THEN cls ELSE "exit"
    /\ UNCHANGED <<callerVars, countryVars, cacheVars, scanVars, params, conf_failed,
                   ret, scans, wifi_conf_file, conf_key, cmds, quits,
                   marker, clientVars, dhcpVars>>

\* do_connect(): after the loop, the DHCP wait if rc == RC_CONNECTED
AfterLoop ==
    /\ pc = "after"
    /\ IF rc = <<RC_CONNECTED>>
         THEN pc' = "dhcp" /\ ret' = ret
         ELSE Return(rc[1])
    /\ UNCHANGED <<callerVars, countryVars, cacheVars, scanVars, params, conf_failed,
                   rc, scans, wifi_conf_file, conf_key, cmds, quits,
                   marker, cls, clientVars, dhcpVars>>

(***************************************************************************)
(* do_wait_for_dhcp(), and what its callers make of its result: do_connect *)
(* keeps rc or sets it to RC_NO_DHCP_LEASE, connect() (encrypt 'off')      *)
(* returns RC_CONNECTED or RC_NO_DHCP_LEASE.                               *)
(***************************************************************************)
DhcpDone(ok) ==
    IF ok
      THEN /\ Return(IF rc = None THEN RC_CONNECTED ELSE rc[1])
           /\ rc' = rc
      ELSE /\ Return(RC_NO_DHCP_LEASE)
           /\ rc' = IF rc = None THEN rc ELSE <<RC_NO_DHCP_LEASE>>

\* One iteration of the loop: time.sleep(1), then is_internet_up()
DhcpPoll ==
    /\ pc = "dhcp"
    /\ attempt < timeout
    /\ sleeps' = sleeps + 1
    /\ checks' = checks + 1
    /\ saw_marker' = marker
    /\ IF marker
         THEN DhcpDone(TRUE) /\ attempt' = attempt
         ELSE /\ attempt' = attempt + 1
              /\ UNCHANGED <<pc, ret, rc>>
    /\ UNCHANGED <<callerVars, countryVars, cacheVars, scanVars, params, conf_failed,
                   scans, wifi_conf_file, conf_key, cmds, quits,
                   marker, cls, clientVars>>

\* A slip after the loop: failure is returned without a last look
DhcpFinal_NoLastCheck ==
    /\ pc = "dhcp"
    /\ ~(attempt < timeout)
    /\ DhcpDone(FALSE)
    /\ UNCHANGED <<callerVars, countryVars, cacheVars, scanVars, params, conf_failed,
                   scans, attempt, sleeps, wifi_conf_file, conf_key,
                   cmds, quits, marker, cls, clientVars, checks, saw_marker>>

\* The loop is over: return is_internet_up()
DhcpFinal ==
    /\ pc = "dhcp"
    /\ ~(attempt < timeout)
    /\ checks' = checks + 1
    /\ saw_marker' = marker
    /\ DhcpDone(marker)
    /\ UNCHANGED <<callerVars, countryVars, cacheVars, scanVars, params, conf_failed,
                   scans, attempt, sleeps, wifi_conf_file, conf_key,
                   cmds, quits, marker, cls, clientVars>>

(***************************************************************************)
(* The environment of connect(): the control client and the DHCP client.  *)
(***************************************************************************)

\* do_connect looks at the client from its launch to the end of the read loop
Watched == pc \in {"first_poll", "read", "poll"}

\* The client writes a line to its stdout
ClientWrite(line) ==
    /\ Watched
    /\ cli = "running"
    /\ nwritten < MaxLines
    /\ Len(pipe) < MaxPipe
    /\ pipe' = Append(pipe, line)
    /\ nwritten' = nwritten + 1
    /\ wk_line' = (wk_line \/ ("W" \in line /\ out_first = "none"))
    /\ out_cwf' = (out_cwf \/ Classify(line) # "none")
    /\ IF out_first # "none"
         THEN UNCHANGED <<out_first, out_scans>>
         ELSE IF Classify(line) # "none"
           THEN out_first' = Classify(line) /\ out_scans' = out_scans
           ELSE IF "S" \in line
             THEN /\ out_scans' = out_scans + 1
                  /\ out_first' = IF out_scans + 1 = max_scans
                                    THEN "scanlimit" ELSE "none"
             ELSE UNCHANGED <<out_first, out_scans>>
    /\ UNCHANGED <<callerVars, countryVars, cacheVars, scanVars, params, conf_failed,
                   pc, rc, ret, scans, wifi_conf_file, conf_key, cmds,
                   quits, marker, cls, cli, cli_status, dhcpVars>>

\* The client exits
ClientExit(status) ==
    /\ Watched
    /\ cli = "running"
    /\ cli' = "exited"
    /\ cli_status' = status
    /\ UNCHANGED <<callerVars, countryVars, cacheVars, scanVars, params, conf_failed,
                   pc, rc, ret, scans, wifi_conf_file, conf_key, cmds,
                   quits, marker, cls, pipe, nwritten, out_first, out_scans,
                   wk_line, out_cwf, dhcpVars>>

\* The DHCP client's hook creates the marker file
MarkerAppears ==
    /\ pc = "dhcp"
    /\ ~marker
    /\ marker' = TRUE
    /\ UNCHANGED <<callerVars, countryVars, cacheVars, scanVars, params, conf_failed,
                   pc, rc, ret, scans, wifi_conf_file, conf_key, cmds,
                   quits, cls, clientVars, dhcpVars>>

Next ==
    \/ PidGuard
    \/ InterfaceReset
    \/ SelectConfig
    \/ wpa_conf
    \/ LaunchSupplicant
    \/ FirstPoll
    \/ ReadLine
    \/ PollClient
    \/ AfterLoop
    \/ DhcpPoll
    \/ DhcpFinal
    \/ \E line \in LineKinds : ClientWrite(line)
    \/ \E status \in ExitStatuses : ClientExit(status)
    \/ MarkerAppears

Init == ConnInit /\ ScanIdle /\ CacheIdle /\ CountryIdle /\ CallersIdle

Spec == Init /\ [][Next]_vars

(***************************************************************************)
(* SpecFair: one WPA connection with a secret in hex form, where connect() *)
(* takes its next step whenever it has one.  It is a sequential program:   *)
(* it stands still only in readline(), while the pipe is empty and the     *)
(* client runs.  Nothing is asked of the client or of the DHCP hook.       *)
(***************************************************************************)
ConnectStep ==
    \/ PidGuard
    \/ InterfaceReset
    \/ SelectConfig
    \/ wpa_conf
    \/ LaunchSupplicant
    \/ FirstPoll
    \/ ReadLine
    \/ PollClient
    \/ AfterLoop
    \/ DhcpPoll
    \/ DhcpFinal

FairInit ==
    /\ Init
    /\ encrypt = "wpa"
    /\ seckey = Key(TRUE, 13)
    /\ ~custom
    /\ ~pidfile
    /\ ~kanoConnect

SpecFair == FairInit /\ [][Next]_vars /\ WF_vars(ConnectStep)

(***************************************************************************)
(* SpecKey: the head of connect(), to the end of its length checks, for   *)
(* every secret of up to MaxKeyLen characters.                            *)
(***************************************************************************)
AllKeys ==
    {NoKey} \cup {Key(FALSE, n) : n \in 0 .. MaxKeyLen}
            \cup {Key(TRUE, n) : n \in 3 .. MaxKeyLen}

KeyInit ==
    /\ encrypt \in {"off", "wep", "wpa"}
    /\ seckey \in AllKeys
    /\ custom \in BOOLEAN
    /\ timeout = 0
    /\ pidfile = FALSE
    /\ kanoConnect = FALSE
    /\ marker = FALSE
    /\ pc = "start"
    /\ ConnFresh
    /\ ScanIdle
    /\ CacheIdle
    /\ CountryIdle
    /\ CallersIdle

NextKey ==
    \/ PidGuard
    \/ InterfaceReset
    \/ SelectConfig

SpecKey == KeyInit /\ [][NextKey]_vars

(***************************************************************************)
(* IWList.  The output of "iwlist scan" is modelled by the sequence of its *)
(* cell blocks, as parseRawData cuts them at the lines that start with     *)
(* "Cell "; the i-th block is the one iwlist numbers i.  A block is        *)
(* modelled by the lines parseCellData looks for in it:                    *)
(*   hdr      the "Cell nn - Address: mac" line has its five tokens        *)
(*   essid    <<>> or <<e>>: the text of the ESSID:"e" line                *)
(*   freq     <<>> or <<l>>: the Frequency: line, l.channel its channel,   *)
(*            l.whole FALSE when it stops before "(Channel n)"             *)
(*   quality  <<>> or <<l>>: the Quality= line, l.q the quality and l.sig  *)
(*            the token after "Signal level=", l.level FALSE when the line *)
(*            has no "Signal level="                                       *)
(*   enc      <<>> or <<v>>: the text after "Encryption key:"              *)
(*   ie, extra  the texts of the IE and Extra: lines                       *)
(* An optional value is <<>> when absent and <<v>> when present.           *)
(***************************************************************************)

\* A string int() reads as n, and one it raises on
Num(n) == [num |-> TRUE, v |-> n]

NaN == [num |-> FALSE, v |-> 0]

\* A quality string is the sequence of its parts between '/'
QualityOf(x, z) == <<Num(x), Num(z)>>

\* The empty string: split('/') gives one part that int() does not read
EmptyString == <<NaN>>

QualityLine(q, sig) == [q |-> q, sig |-> sig, level |-> TRUE]

\* A Quality= line without "Signal level=", as some drivers print it
BareQualityLine(q) == [q |-> q, sig |-> NaN, level |-> FALSE]

\* "Frequency:2.437 GHz (Channel 6)", and the line without its channel
FrequencyLine == [channel |-> "6", whole |-> TRUE]

ShortFrequencyLine == [channel |-> "", whole |-> FALSE]

\* The security lines of a block
SecurityLines ==
    { [enc |-> <<>>,      ie |-> <<>>,                extra |-> <<>>],
      [enc |-> <<"off">>, ie |-> <<>>,                extra |-> <<>>],
      [enc |-> <<"on">>,  ie |-> <<>>,                extra |-> <<>>],
      [enc |-> <<"on">>,  ie |-> <<"WPA Version 1">>, extra |-> <<>>],
      [enc |-> <<"on">>,  ie |-> <<"Unknown: 3001">>, extra |-> <<"wpa_ie=dd16">>],
      [enc |-> <<"off">>, ie |-> <<"WPA Version 1">>, extra |-> <<>>] }

EssidLines == {<<>>, <<"a">>}

QualityLines ==
    { <<>>,
      <<QualityLine(QualityOf(70, 70), Num(10))>>,
      <<QualityLine(QualityOf(30, 70), Num(20))>> }

\* Blocks of network "a" with a whole header and a Frequency: line, and with
\* an interior line that lacks its tokens
MalformedBlocks ==
    { [hdr |-> TRUE, essid |-> <<"a">>, freq |-> f, quality |-> q,
       enc |-> <<"off">>, ie |-> <<>>, extra |-> <<>>] :
         f \in {<<FrequencyLine>>, <<ShortFrequencyLine>>},
         q \in {<<QualityLine(QualityOf(70, 70), Num(10))>>,
                <<BareQualityLine(QualityOf(70, 70))>>} }

\* The blocks a scan is made of: under a whole header, every choice of the
\* ESSID and Quality= lines on an open cell and every choice of the security
\* lines on network "a"; one block whose header stops after the cell
\* number; and the blocks above
CellBlocks ==
    { [hdr |-> TRUE, essid |-> e, freq |-> <<>>, quality |-> q,
       enc |-> <<"off">>, ie |-> <<>>, extra |-> <<>>] :
         e \in EssidLines, q \in QualityLines }
    \cup
    { [hdr |-> TRUE, essid |-> <<"a">>, freq |-> <<>>,
       quality |-> <<QualityLine(QualityOf(70, 70), Num(10))>>,
       enc |-> sec.enc, ie |-> sec.ie, extra |-> sec.extra] :
         sec \in SecurityLines }
    \cup
    { [hdr |-> FALSE, essid |-> <<"a">>, freq |-> <<>>,
       quality |-> <<QualityLine(QualityOf(70, 70), Num(10))>>,
       enc |-> <<"off">>, ie |-> <<>>, extra |-> <<>>] }
    \cup MalformedBlocks

\* Sequences of at most n elements of S
SeqUpTo(S, n) == UNION {[1 .. k -> S] : k \in 0 .. n}

\* What getRawData returns: '' or a text with its cell blocks
RawOutputs ==
    {[empty |-> TRUE, cells |-> <<>>]}
    \cup {[empty |-> FALSE, cells |-> c] : c \in SeqUpTo(CellBlocks, MaxCells)}

\* parseCellData raises: getCellMAC on a header of fewer than five tokens,
\* getCellChannel on a Frequency: line of fewer than four, getCellSignal on
\* a Quality= line without "Signal level="
CellRaises(block) ==
    \/ ~block.hdr
    \/ block.freq # <<>> /\ ~block.freq[1].whole
    \/ block.quality # <<>> /\ ~block.quality[1].level

\* parseCellData: the dictionary of one block, over its defaults
\* (ESSID '', Channel '', Signal '0', Quality '').  An entry that may be
\* missing from the dictionary is <<>> when missing; essid_line records
\* whether the block had an ESSID line.
parseCellData(block, number) ==
    [ Number     |-> number,
      ESSID      |-> IF block.essid = <<>> THEN <<"">> ELSE block.essid,
      Channel    |-> IF block.freq = <<>> THEN "" ELSE block.freq[1].channel,
      Signal     |-> IF block.quality = <<>> THEN Num(0)
                     ELSE block.quality[1].sig,
      Quality    |-> IF block.quality = <<>> THEN EmptyString
                     ELSE block.quality[1].q,
      Encryption |-> block.enc,
      IE         |-> block.ie,
      Extra      |-> block.extra,
      essid_line |-> block.essid # <<>> ]

\* parseRawData: a block that makes parseCellData raise is logged and left out
parseRawData(cells) ==
    LET kept == {i \in 1 .. Len(cells) : ~CellRaises(cells[i])}
    IN  [i \in kept |-> parseCellData(cells[i], i)]

\* refresh(): the loop runs while time.time() - start_time < 5, and sleeps
\* 0.2 s after an empty output; in ticks of 100 ms
BudgetTicks == 50

SleepTicks == 2

\* The time one run of "ifconfig up" and "iwlist scan" takes, in ticks
ScanDurations == {10, 25}

\* refresh() runs in IWList.__init__ (scan_pc "refresh", returning to
\* "ready") and when it is called on the scanner later ("again", returning
\* to "refreshed")
Refreshing == {"refresh", "again"}

Constructed == {"ready", "refreshed"}

Returned(from) == IF from = "refresh" THEN "ready" ELSE "refreshed"

\* A slip in the loop condition: the map is not looked at
ScanAttempt_WhateverHeld ==
    /\ scan_pc \in Refreshing
    /\ elapsed < BudgetTicks
    /\ \E rawdata \in RawOutputs, d \in ScanDurations :
         LET parsed == parseRawData(rawdata.cells)
         IN  IF rawdata.empty
               THEN /\ tries' = tries + 1
                    /\ elapsed' = elapsed + d + SleepTicks
                    /\ naps' = naps + 1
                    /\ UNCHANGED <<data, scan_pc, scanned>>
               ELSE IF DOMAIN parsed = {}
                 THEN /\ tries' = tries + 1
                      /\ elapsed' = elapsed + d
                      /\ UNCHANGED <<data, scan_pc, scanned, naps>>
                 ELSE /\ data' = parsed
                      /\ scanned' = rawdata.cells
                      /\ scan_pc' = Returned(scan_pc)
                      /\ tries' = 0
                      /\ elapsed' = 0
                      /\ naps' = 0
    /\ UNCHANGED <<listed, connVars, cacheVars, countryVars, callerVars>>

\* One iteration of the loop of refresh().  When the parse gives cells the
\* loop condition fails next and refresh() returns; its locals end with it.
ScanAttempt ==
    /\ scan_pc \in Refreshing
    /\ DOMAIN data = {}
    /\ elapsed < BudgetTicks
    /\ \E rawdata \in RawOutputs, d \in ScanDurations :
         LET parsed == parseRawData(rawdata.cells)
         IN  IF rawdata.empty
               THEN /\ tries' = tries + 1
                    /\ elapsed' = elapsed + d + SleepTicks
                    /\ naps' = naps + 1
                    /\ UNCHANGED <<data, scan_pc, scanned>>
               ELSE IF DOMAIN parsed = {}
                 THEN /\ tries' = tries + 1
                      /\ elapsed' = elapsed + d
                      /\ UNCHANGED <<data, scan_pc, scanned, naps>>
                 ELSE /\ data' = parsed
                      /\ scanned' = rawdata.cells
                      /\ scan_pc' = Returned(scan_pc)
                      /\ tries' = 0
                      /\ elapsed' = 0
                      /\ naps' = 0
    /\ UNCHANGED <<listed, connVars, cacheVars, countryVars, callerVars>>

\* refresh(): the five seconds are over and no cell was found
RefreshTimeout ==
    /\ scan_pc \in Refreshing
    /\ DOMAIN data = {}
    /\ ~(elapsed < BudgetTicks)
    /\ scan_pc' = Returned(scan_pc)
    /\ tries' = 0
    /\ elapsed' = 0
    /\ naps' = 0
    /\ UNCHANGED <<data, listed, scanned, connVars, cacheVars, countryVars, callerVars>>

\* refresh() is called on the constructed scanner: tries = 0 and start_time
\* are set, and the loop condition is about to be tested
Refresh ==
    /\ scan_pc \in Constructed
    /\ scan_pc' = "again"
    /\ tries' = 0
    /\ elapsed' = 0
    /\ naps' = 0
    /\ UNCHANGED <<data, listed, scanned, connVars, cacheVars, countryVars,
                   callerVars>>

\* refresh(): the loop condition fails at its first test, the map holding
\* cells, and refresh() returns
RefreshLoaded ==
    /\ scan_pc \in Refreshing
    /\ DOMAIN data # {}
    /\ scan_pc' = Returned(scan_pc)
    /\ UNCHANGED <<data, tries, elapsed, naps, listed, scanned, connVars,
                   cacheVars, countryVars, callerVars>>

\* x.upper().find('WPA') != -1, for the texts of the IE and Extra lines
Upper(text) ==
    CASE text = "WPA Version 1" -> "WPA VERSION 1"
      [] text = "wpa_ie=dd16"   -> "WPA_IE=DD16"
      [] text = "Unknown: 3001" -> "UNKNOWN: 3001"
      [] OTHER                  -> text

\* A slip in the search: the text is not put in upper case
FindsWPA_CaseSensitive(text) == text \in {"WPA VERSION 1", "WPA_IE=DD16", "WPA Version 1"}

FindsWPA(text) == Upper(text) \in {"WPA VERSION 1", "WPA_IE=DD16"}

\* getList(): the encryption class of a cell that has an Encryption entry
EncryptionOf(ww) ==
    IF ww.Encryption[1] = "off" THEN "off"
    ELSE IF \/ \E i \in 1 .. Len(ww.Extra) : FindsWPA(ww.Extra[i])
            \/ \E i \in 1 .. Len(ww.IE) : FindsWPA(ww.IE[i])
      THEN "wpa"
      ELSE "wep"

\* getList(): 'ESSID' in ww.  parseCellData gives every cell an ESSID entry.
HasESSID(ww) == ww.ESSID # <<>>

\* A slip in add_wnet: a duplicate of equal signal takes the place too
add_wnet_TiesReplace(wlist, new_wnet) ==
    LET same == {i \in 1 .. Len(wlist) : wlist[i].essid = new_wnet.essid}
    IN  IF same = {}
          THEN Append(wlist, new_wnet)
          ELSE LET i == CHOOSE j \in same : \A k \in same : j <= k
                   old_wnet == wlist[i]
               IN  IF /\ old_wnet.signal.num
                      /\ new_wnet.signal.num
                      /\ old_wnet.signal.v <= new_wnet.signal.v
                     THEN [wlist EXCEPT ![i] = new_wnet]
                     ELSE wlist

\* getList.add_wnet: a network is added unless one of its essid is listed;
\* it takes the place of that one when its signal reads as the greater
\* integer
add_wnet(wlist, new_wnet) ==
    LET same == {i \in 1 .. Len(wlist) : wlist[i].essid = new_wnet.essid}
    IN  IF same = {}
          THEN Append(wlist, new_wnet)
          ELSE LET i == CHOOSE j \in same : \A k \in same : j <= k
                   old_wnet == wlist[i]
               IN  IF /\ old_wnet.signal.num
                      /\ new_wnet.signal.num
                      /\ old_wnet.signal.v < new_wnet.signal.v
                     THEN [wlist EXCEPT ![i] = new_wnet]
                     ELSE wlist

\* getList(): the loop over self.data, in the order the dictionary gives its
\* cells from the i-th on.  ww['Encryption'] raises on a cell without it.
RECURSIVE CollectNets(_, _, _, _, _)
CollectNets(cells, order, i, unsecure, iwnets) ==
    IF i > Len(order)
      THEN [raised |-> FALSE, list |-> iwnets]
      ELSE LET ww == cells[order[i]]
           IN  IF ~HasESSID(ww)
                 THEN CollectNets(cells, order, i + 1, unsecure, iwnets)
               ELSE IF ww.Encryption = <<>>
                 THEN [raised |-> TRUE, list |-> <<>>]
               ELSE LET enc == EncryptionOf(ww)
                        wnet == [essid      |-> ww.ESSID[1],
                                 channel    |-> ww.Channel,
                                 signal     |-> ww.Signal,
                                 quality    |-> ww.Quality,
                                 encryption |-> enc,
                                 number     |-> ww.Number]
                    IN  IF unsecure /\ enc # "off"
                          THEN CollectNets(cells, order, i + 1, unsecure, iwnets)
                          ELSE CollectNets(cells, order, i + 1, unsecure,
                                           add_wnet(iwnets, wnet))

\* getList.sortNetworks raises: the quality is not two integers around a
\* '/', or the second is zero
SortKeyRaises(wnet) ==
    LET q == wnet.quality
    IN  ~(Len(q) = 2 /\ q[1].num /\ q[2].num /\ q[2].v # 0)

\* A slip in the order of the sort: weakest first
KeyLess_Ascending(a, b) ==
    b.quality[1].v * a.quality[2].v < a.quality[1].v * b.quality[2].v

\* sortNetworks(a) < sortNetworks(b), for denominators above zero
KeyLess(a, b) ==
    a.quality[1].v * b.quality[2].v < b.quality[1].v * a.quality[2].v

\* sorted(iwnets, key=sortNetworks, reverse=True): networks of one key keep
\* their order
RECURSIVE SortedReverse(_)
SortedReverse(iwnets) ==
    IF iwnets = <<>>
      THEN <<>>
      ELSE LET n == Len(iwnets)
               new == iwnets[n]
               done == SortedReverse(SubSeq(iwnets, 1, n - 1))
               before == {i \in 1 .. Len(done) : KeyLess(done[i], new)}
               at == IF before = {} THEN Len(done) + 1
                     ELSE CHOOSE j \in before : \A k \in before : j <= k
           IN  SubSeq(done, 1, at - 1) \o <<new>> \o SubSeq(done, at, Len(done))

\* The orders in which a dictionary of these keys may give its items
Orders(keys) ==
    {o \in [1 .. Cardinality(keys) -> keys] :
        \A i, j \in 1 .. Cardinality(keys) : o[i] = o[j] => i = j}

\* getList(unsecure, first) on the cells, iterated in the given order; the
\* options and the order are kept with the result
getList(cells, order, unsecure, first) ==
    LET got == CollectNets(cells, order, 1, unsecure, <<>>)
    IN  IF got.raised \/ \E i \in 1 .. Len(got.list) : SortKeyRaises(got.list[i])
          THEN [status |-> "raised", list |-> <<>>,
                unsecure |-> unsecure, first |-> first, order |-> order]
          ELSE LET iwnets == SortedReverse(got.list)
               IN  [status |-> "ok",
                    list |-> IF first
                               THEN SubSeq(iwnets, 1, IF Len(iwnets) < 1 THEN Len(iwnets) ELSE 1)
                               ELSE iwnets,
                    unsecure |-> unsecure, first |-> first, order |-> order]

\* A call of getList() on the scanner
GetList ==
    /\ scan_pc \in Constructed
    /\ \E unsecure \in BOOLEAN, first \in BOOLEAN, order \in Orders(DOMAIN data) :
         listed' = getList(data, order, unsecure, first)
    /\ UNCHANGED <<scan_pc, data, tries, elapsed, scanned, naps, connVars,
                 cacheVars, countryVars, callerVars>>

\* No call of connect() is at work
ConnIdle ==
    /\ encrypt = "off"
    /\ seckey = NoKey
    /\ custom = FALSE
    /\ timeout = 0
    /\ pidfile = FALSE
    /\ kanoConnect = FALSE
    /\ marker = FALSE
    /\ pc = "idle"
    /\ ConnFresh

\* IWList.__init__: self.data = {}, then refresh() at the top of its loop
ScanInit ==
    /\ scan_pc = "refresh"
    /\ data = <<>>
    /\ tries = 0
    /\ elapsed = 0
    /\ listed = NotListed
    /\ scanned = <<>>
    /\ naps = 0
    /\ ConnIdle
    /\ CacheIdle
    /\ CountryIdle
    /\ CallersIdle

(***************************************************************************)
(* SpecList: getList() on a scanner whose scan gave up to MaxNets cells of *)
(* three networks, with their qualities and signal levels.                 *)
(***************************************************************************)
ListQualityLines ==
    { <<QualityLine(QualityOf(70, 70), Num(10))>>,
      <<QualityLine(QualityOf(30, 70), Num(20))>>,
      <<QualityLine(QualityOf(50, 70), NaN)>> }

\* An open cell of network e with Quality= line q
OpenBlock(e, q) ==
    [hdr |-> TRUE, essid |-> <<e>>, freq |-> <<>>, quality |-> q,
     enc |-> <<"off">>, ie |-> <<>>, extra |-> <<>>]

\* Network "a" is seen with every quality line, open, and once protected;
\* "b" with two of the lines and "c" with the one whose signal is no integer
ListBlocks ==
    {OpenBlock("a", q) : q \in ListQualityLines}
    \cup
    { [hdr |-> TRUE, essid |-> <<"a">>, freq |-> <<>>,
       quality |-> <<QualityLine(QualityOf(30, 70), Num(20))>>,
       enc |-> <<"on">>, ie |-> <<"WPA Version 1">>, extra |-> <<>>] }
    \cup
    { OpenBlock("b", <<QualityLine(QualityOf(70, 70), Num(10))>>),
      OpenBlock("b", <<QualityLine(QualityOf(30, 70), Num(20))>>),
      OpenBlock("c", <<QualityLine(QualityOf(50, 70), NaN)>>) }

\* The scanner after a refresh() whose scan gave these cells
ListInit ==
    /\ scan_pc = "ready"
    /\ scanned \in SeqUpTo(ListBlocks, MaxNets)
    /\ data = parseRawData(scanned)
    /\ tries = 0
    /\ elapsed = 0
    /\ naps = 0
    /\ listed = NotListed
    /\ ConnIdle
    /\ CacheIdle
    /\ CountryIdle
    /\ CallersIdle

\* getList() leaves the scanner as it was, and a call does not depend on the
\* calls before it: one call is made on each scanner
ListCall ==
    /\ listed = NotListed
    /\ GetList

NextList ==
    \/ ListCall

SpecList == ListInit /\ [][NextList]_vars

NextScan ==
    \/ ScanAttempt
    \/ RefreshTimeout
    \/ Refresh
    \/ RefreshLoaded
    \/ ListCall

SpecScan == ScanInit /\ [][NextScan]_vars

(***************************************************************************)
(* KwifiCache.  The program is Python 2: a string is a byte string (str)   *)
(* or a unicode string.  A string is modelled by its kind, its text and    *)
(* whether the text is ASCII.  json.dumps reads a byte string as UTF-8 and *)
(* json.loads gives every string back as a unicode string.                 *)
(***************************************************************************)
PyStr(text, ascii) == [kind |-> "str", text |-> text, ascii |-> ascii]

PyUnicode(text, ascii) == [kind |-> "unicode", text |-> text, ascii |-> ascii]

\* a == b on two strings: a byte string that is not ASCII is unequal to
\* every unicode string
PyEq(a, b) ==
    IF a.kind = b.kind
      THEN a.text = b.text
      ELSE a.ascii /\ b.ascii /\ a.text = b.text

\* json.loads(json.dumps(v)) for a string, and for None or a string
JsonString(v) == PyUnicode(v.text, v.ascii)

JsonOptional(v) == IF v = <<>> THEN <<>> ELSE <<JsonString(v[1])>>

\* The essids, keys and configuration paths the cache is called with
CacheEssids == {PyStr("home", TRUE), PyStr("other", TRUE), PyStr("caf\\xc3\\xa9", FALSE)}

CacheEncryptions == {PyStr("off", TRUE), PyStr("wep", TRUE), PyStr("wpa", TRUE)}

CacheKeys == {PyStr("secret", TRUE), PyStr("secret2", TRUE)}

CacheConfs == {<<>>, <<PyStr("/tmp/wpa.conf", TRUE)>>}

\* save(): _save_cache_ writes the JSON text of the four values
CacheSave ==
    \E essid \in CacheEssids, encryption \in CacheEncryptions,
       enckey \in CacheKeys, wpaconf \in CacheConfs :
        LET saved == [essid |-> essid, encryption |-> encryption,
                      enckey |-> enckey, conf |-> wpaconf]
        IN  /\ cache_file' = << [essid      |-> JsonString(saved.essid),
                                 encryption |-> JsonString(saved.encryption),
                                 enckey     |-> JsonString(saved.enckey),
                                 conf       |-> JsonOptional(saved.conf)] >>
            /\ cache_saved' = <<saved>>
            /\ cache_out' = [call |-> "save", arg |-> <<essid>>, result |-> <<>>]
            /\ UNCHANGED <<connVars, scanVars, countryVars, callerVars>>

\* empty(): os.unlink, whose failure on an absent file is swallowed
CacheEmpty ==
    /\ cache_file' = <<>>
    /\ cache_saved' = <<>>
    /\ cache_out' = [call |-> "empty", arg |-> <<>>, result |-> <<>>]
    /\ UNCHANGED <<connVars, scanVars, countryVars, callerVars>>

\* _get_cache_(): None when the file cannot be read, else its parsed text
get_cache == cache_file

\* get(essid): the entry when wdata['essid'] == essid, None when it is not
\* or when wdata is None
CacheGet ==
    /\ \E essid \in CacheEssids :
         LET wdata == get_cache
         IN  cache_out' =
                 [call |-> "get", arg |-> <<essid>>,
                  result |-> IF wdata # <<>> /\ PyEq(wdata[1].essid, essid)
                               THEN wdata ELSE <<>>]
    /\ UNCHANGED <<cache_file, cache_saved, connVars, scanVars,
                 countryVars, callerVars>>

\* get_latest()
CacheGetLatest ==
    /\ cache_out' = [call |-> "get_latest", arg |-> <<>>, result |-> get_cache]
    /\ UNCHANGED <<cache_file, cache_saved, connVars, scanVars,
                 countryVars, callerVars>>

\* A cache on a file that is not there yet
CacheInit ==
    /\ CacheIdle
    /\ CountryIdle
    /\ CallersIdle
    /\ ConnIdle
    /\ ScanIdle

NextCache ==
    \/ CacheSave
    \/ CacheEmpty
    \/ CacheGet
    \/ CacheGetLatest

SpecCache == CacheInit /\ [][NextCache]_vars

(***************************************************************************)
(* SpecDisconnect: disconnect(iface, clear_cache) on a cache that save()   *)
(* may have written.  The call is kept in cache_out with its arguments.    *)
(***************************************************************************)
Ifaces == {"", "wlan0"}

DisconnectCommands ==
    <<"wpa_cli terminate", "iwconfig essid off", "iwconfig mode managed",
      "sleep">>

\* What the commands of disconnect() leave alone
ConnRest ==
    <<params, pc, rc, ret, scans, wifi_conf_file, conf_key, quits, marker,
      cls, clientVars, dhcpVars, conf_failed>>

\* A slip in disconnect(): the cache is never emptied
disconnect_KeepsCache ==
    /\ Len(cmds) < Len(DisconnectCommands) * MaxDisconnects
    /\ \E iface \in Ifaces, clear_cache \in BOOLEAN :
         /\ cache_out' = [call |-> "disconnect",
                          arg |-> <<iface, clear_cache>>, result |-> <<>>]
         /\ IF iface = ""
              THEN UNCHANGED <<cmds, cache_file, cache_saved>>
              ELSE /\ cmds' = cmds \o DisconnectCommands
                   /\ UNCHANGED <<cache_file, cache_saved>>
    /\ UNCHANGED <<ConnRest, scanVars, countryVars, callerVars>>

\* disconnect(iface, clear_cache): nothing at all without an interface;
\* else the supplicant is terminated, the cache emptied when asked, and the
\* ESSID and mode of the interface cleared
disconnect ==
    /\ Len(cmds) < Len(DisconnectCommands) * MaxDisconnects
    /\ \E iface \in Ifaces, clear_cache \in BOOLEAN :
         /\ cache_out' = [call |-> "disconnect",
                          arg |-> <<iface, clear_cache>>, result |-> <<>>]
         /\ IF iface = ""
              THEN UNCHANGED <<cmds, cache_file, cache_saved>>
              ELSE /\ cmds' = cmds \o DisconnectCommands
                   /\ IF clear_cache
                        THEN cache_file' = <<>> /\ cache_saved' = <<>>
                        ELSE UNCHANGED <<cache_file, cache_saved>>
    /\ UNCHANGED <<ConnRest, scanVars, countryVars, callerVars>>

NextDisconnect ==
    \/ CacheSave
    \/ disconnect

SpecDisconnect == CacheInit /\ [][NextDisconnect]_vars

(***************************************************************************)
(* get_wireless_country.  A string of the environment is the sequence of   *)
(* its characters; os.getenv gives <<>> (None) for a variable that is not  *)
(* set and <<s>> for one set to s.                                         *)
(***************************************************************************)
EnvValues ==
    { <<>>,
      << <<>> >>,
      << <<"E", "S">> >>,
      << <<"U", "S">> >>,
      << <<"C">> >>,
      << <<"e", "s", "_", "A", "R", ".", "U", "T", "F", "-", "8">> >>,
      << <<"e", "n", "_", "U", "S", ".", "U", "T", "F", "-", "8">> >>,
      << <<"e", "n", "_", "u", "s">> >> }

\* s.split('_')
RECURSIVE Split(_)
Split(s) ==
    LET at == {i \in 1 .. Len(s) : s[i] = "_"}
    IN  IF at = {}
          THEN <<s>>
          ELSE LET i == CHOOSE j \in at : \A k \in at : j <= k
               IN  <<SubSeq(s, 1, i - 1)>> \o Split(SubSeq(s, i + 1, Len(s)))

\* s[:2]
FirstTwo(s) == SubSeq(s, 1, IF Len(s) < 2 THEN Len(s) ELSE 2)

\* s.upper(), on the letters of EnvValues
UpperChar(c) ==
    CASE c = "e" -> "E"
      [] c = "n" -> "N"
      [] c = "s" -> "S"
      [] c = "u" -> "U"
      [] OTHER   -> c

UpperCase(s) == [i \in 1 .. Len(s) |-> UpperChar(s[i])]

\* The try block of get_wireless_country: <<>> is None, also when the block
\* raised (cc is None, or split gave a single part)
CountryCode(env) ==
    LET override == env.KANO_WIFI_COUNTRY
        from == IF override = <<>> \/ override[1] = <<>> THEN env.LANG ELSE override
    IN  IF from = <<>>
          THEN <<>>
          ELSE LET parts == Split(from[1])
               IN  IF Len(parts) < 2
                     THEN <<>>
                     ELSE LET cc == FirstTwo(parts[2])
                          IN  IF cc # <<>> /\ cc \notin {<<"U", "S">>}
                                THEN <<UpperCase(cc)>>
                                ELSE <<>>

\* What get_wireless_country(enable_driver) does: 'iw reg set' is run when a
\* code was found and enable_driver is true
WirelessCountry(enable_driver) ==
    LET country_code == CountryCode(environ)
    IN  [called |-> TRUE,
         enable_driver |-> enable_driver,
         code |-> country_code,
         reg_set |-> IF country_code # <<>> /\ enable_driver
                       THEN country_code ELSE <<>>]

\* A call of get_wireless_country(enable_driver)
get_wireless_country ==
    /\ ~country.called
    /\ \E enable_driver \in BOOLEAN :
         country' = WirelessCountry(enable_driver)
    /\ UNCHANGED <<environ, connVars, scanVars, cacheVars, callerVars>>

CountryInit ==
    /\ environ \in [KANO_WIFI_COUNTRY : EnvValues, LANG : EnvValues]
    /\ country = NotCalled
    /\ ConnIdle
    /\ ScanIdle
    /\ CacheIdle
    /\ CallersIdle

NextCountry ==
    \/ get_wireless_country

SpecCountry == CountryInit /\ [][NextCountry]_vars

(***************************************************************************)
(* SpecConstruct: IWList.__init__ in an environment that may name a        *)
(* country: self.data = {}, refresh(), then                                *)
(* get_wireless_country(enable_driver=True).                               *)
(***************************************************************************)
\* IWList.__init__, after refresh() returned: the country is announced
AnnounceCountry ==
    /\ scan_pc = "ready"
    /\ ~country.called
    /\ country' = WirelessCountry(TRUE)
    /\ UNCHANGED <<environ, connVars, scanVars, cacheVars, callerVars>>

ConstructInit ==
    /\ environ \in [KANO_WIFI_COUNTRY : EnvValues, LANG : {<<>>}]
    /\ country = NotCalled
    /\ scan_pc = "refresh"
    /\ data = <<>>
    /\ tries = 0
    /\ elapsed = 0
    /\ listed = NotListed
    /\ scanned = <<>>
    /\ naps = 0
    /\ ConnIdle
    /\ CacheIdle
    /\ CallersIdle

NextConstruct ==
    \/ ScanAttempt
    \/ RefreshTimeout
    \/ AnnounceCountry

SpecConstruct == ConstructInit /\ [][NextConstruct]_vars

(***************************************************************************)
(* Several programs calling connect().  Each is a process of its own; the  *)
(* only thing connect() does about the others is the guard at its top.     *)
(* A process is "running" before it calls connect(), then goes through     *)
(* "guard", "slept" (after the pkill and the sleep), "active" (from the    *)
(* interface reset on) and "returned"; "killed" is a process that pkill    *)
(* ended.  The PID file is kano-connect's and is written outside this      *)
(* module: whether it is readable is fixed by the environment.             *)
(***************************************************************************)
Procs == 1..MaxCallers

CallerAt(p, where) == callers.procs[p].pc = where

MoveCaller(p, where) ==
    callers' = [callers EXCEPT !.procs[p].pc = where]

\* sys.argv[0].find('kano-connect') == -1
OtherClient(p) == ~callers.procs[p].kano

\* pkill -f kano-connect: every live process whose command line holds it
Pkill(procs) ==
    [q \in Procs |->
        IF procs[q].kano /\ procs[q].pc # "returned"
        THEN [procs[q] EXCEPT !.pc = "killed"]
        ELSE procs[q]]

\* a program calls connect()
CallerStart(p) ==
    /\ CallerAt(p, "running")
    /\ MoveCaller(p, "guard")
    /\ UNCHANGED <<connVars, scanVars, cacheVars, countryVars>>

\* the guard: pkill and sleep(1), only when the PID file is readable and
\* the caller is not kano-connect
CallerGuard(p) ==
    /\ CallerAt(p, "guard")
    /\ IF callers.pidfile /\ OtherClient(p)
       THEN callers' = [callers EXCEPT
                !.procs = [Pkill(callers.procs) EXCEPT ![p].pc = "slept"]]
       ELSE MoveCaller(p, "slept")
    /\ UNCHANGED <<connVars, scanVars, cacheVars, countryVars>>

\* wpa_cli terminate and the five interface commands
CallerReset(p) ==
    /\ CallerAt(p, "slept")
    /\ MoveCaller(p, "active")
    /\ UNCHANGED <<connVars, scanVars, cacheVars, countryVars>>

\* any of the returns of connect()
CallerReturn(p) ==
    /\ CallerAt(p, "active")
    /\ MoveCaller(p, "returned")
    /\ UNCHANGED <<connVars, scanVars, cacheVars, countryVars>>

CallersInit ==
    /\ callers \in [pidfile : BOOLEAN,
                    procs : [Procs -> [kano : BOOLEAN, pc : {"running"}]]]
    /\ ConnIdle
    /\ ScanIdle
    /\ CacheIdle
    /\ CountryIdle

NextCallers ==
    \E p \in Procs :
        \/ CallerStart(p)
        \/ CallerGuard(p)
        \/ CallerReset(p)
        \/ CallerReturn(p)

SpecCallers == CallersInit /\ [][NextCallers]_vars

(***************************************************************************)
(* Properties of connect() and do_connect(), checked under Spec.           *)
(***************************************************************************)

\* connect() is over: it returned or an exception left it
Terminated == pc \in {"done", "raised"}

Has(cmd) == \E i \in 1 .. Len(cmds) : cmds[i] = cmd

\* The supplicant daemon or the control client was launched
Launched == Has("wpa_supplicant") \/ Has("wpa_cli")

\* C1: whatever connect() returns is one of the six return codes RC_*.
C1_ReturnsClosedCode == pc = "done" => ret[1] \in ReturnCodes

\* C1, second half: no call of connect() ends with an exception.
C1_NeverRaises == pc # "raised"

\* C2: when connect() returns RC_INCORRECT_PASSWORD_LEN, no external command
\* was run and no side effect made before.
C2_RejectBeforeSideEffects ==
    (pc = "done" /\ ret = <<RC_INCORRECT_PASSWORD_LEN>>) => cmds = <<>>

\* C3: when the client wrote a line with reason=WRONG_KEY and no terminally
\* classified line before it, what do_connect returns is RC_BAD_PASSWORD.
C3_WrongKeyYieldsBadPassword ==
    (pc = "done" /\ wk_line) => ret = <<RC_BAD_PASSWORD>>

\* C4: when the first line do_connect classified has CTRL-EVENT-CONNECTED,
\* connect() returns RC_CONNECTED if the marker file came to exist before
\* the last check of the DHCP wait, and RC_NO_DHCP_LEASE if no check found
\* the marker.
C4_ConnectedThenDhcpDecides ==
    (Terminated /\ cls = "connected") =>
        /\ marker => ret = <<RC_CONNECTED>>
        /\ ~saw_marker => ret = <<RC_NO_DHCP_LEASE>>

\* C5: when the client wrote WPS-AP-AVAILABLE on three lines and no line
\* with CTRL-EVENT-CONNECTED, reason=WRONG_KEY or reason=CONN_FAILED,
\* do_connect returns RC_AP_NOT_IN_RANGE, and the read loop never ends on
\* a scan count below three.
C5_ThreeScansYieldNotInRange ==
    /\ (Terminated /\ out_first = "scanlimit" /\ ~out_cwf) =>
           ret = <<RC_AP_NOT_IN_RANGE>>
    /\ cls = "scanlimit" => scans = max_scans

\* C6: on the supplicant path the DHCP wait runs only after a line with
\* CTRL-EVENT-CONNECTED was classified, and a session that ended otherwise
\* returns neither RC_CONNECTED nor RC_NO_DHCP_LEASE.
C6_DhcpOnlyAfterConnected ==
    (cli # "none" /\ cls # "connected") =>
        /\ pc # "dhcp"
        /\ checks = 0
        /\ pc = "done" => ret \notin {<<RC_CONNECTED>>, <<RC_NO_DHCP_LEASE>>}

\* C9, as claimed: with encrypt 'off' no configuration is generated, neither
\* the supplicant nor the control client is launched, and connect() returns
\* RC_CONNECTED or RC_NO_DHCP_LEASE as the DHCP wait decides.
C9_OffNeverLaunches ==
    encrypt = "off" =>
        /\ ~Launched
        /\ ~Has("write config")
        /\ Terminated => ret = <<IF saw_marker THEN RC_CONNECTED
                                               ELSE RC_NO_DHCP_LEASE>>

\* C9, amended: the same, for a call with encrypt 'off' that gives no
\* wpa_custom_file.
C9_OffWithoutCustomFile ==
    (encrypt = "off" /\ ~custom) =>
        /\ ~Launched
        /\ ~Has("write config")
        /\ wifi_conf_file = "none"
        /\ Terminated => /\ checks > 0
                         /\ ret = <<IF saw_marker THEN RC_CONNECTED
                                                  ELSE RC_NO_DHCP_LEASE>>

\* C9, witnessed: an open-network call that ended without a lease after
\* polling the marker through its whole timeout
C9_Witness ==
    /\ encrypt = "off"
    /\ ~custom
    /\ pc = "done"
    /\ ret = <<RC_NO_DHCP_LEASE>>
    /\ sleeps = MaxTimeout

\* C16: when the configuration of a wep or wpa connection cannot be made
\* (wpa_passphrase fails, or the file cannot be written) connect() returns
\* RC_INTERNAL_ERROR and launches neither the supplicant nor the client.
C16_ConfFailureIsInternalError ==
    conf_failed # "none" =>
        /\ pc = "done"
        /\ ret = <<RC_INTERNAL_ERROR>>
        /\ ~Launched

\* The events at which the read loop of do_connect breaks
TerminalEvents == {"connected", "wrongkey", "connfailed", "scanlimit"}

\* C19: when the read loop ended at a terminal event, one quit command and no
\* more was written to the client before do_connect starts the DHCP wait or
\* returns; when it ended because the client had exited, none was written.
C19_QuitExactlyOnce ==
    /\ (cls \in TerminalEvents /\ pc \in {"after", "dhcp", "done"}) => quits = 1
    /\ cls = "exit" => quits = 0
    /\ quits <= 1

\* C19, witnessed: do_connect returned after a reason=WRONG_KEY line, with
\* one quit written
C19_Witness ==
    /\ cls = "wrongkey"
    /\ pc = "done"
    /\ ret = <<RC_BAD_PASSWORD>>
    /\ quits = 1

\* C20: when the PID file is readable and the caller is not kano-connect,
\* connect() runs pkill on kano-connect and sleeps before any supplicant or
\* interface command; when the file is not readable, or the caller is
\* kano-connect, it never runs pkill.
C20_GuardBeforeCommands ==
    pc # "start" =>
        IF pidfile /\ ~kanoConnect
          THEN /\ Len(cmds) >= 2
               /\ cmds[1] = "pkill kano-connect"
               /\ cmds[2] = "sleep"
               /\ \A i \in 3 .. Len(cmds) : cmds[i] # "pkill kano-connect"
          ELSE ~Has("pkill kano-connect")

\* C20, witnessed: a call that found the PID file of another program, and
\* went on to the supplicant and interface commands
C20_Witness ==
    /\ pidfile /\ ~kanoConnect
    /\ Len(cmds) >= 3
    /\ cmds[1] = "pkill kano-connect"
    /\ cmds[3] = "wpa_cli terminate"
    /\ Has("ifconfig up")

(***************************************************************************)
(* Properties of the length checks of connect(), checked under SpecKey.    *)
(***************************************************************************)

\* connect() is past its length check
Validated == pc \notin {"start", "reset", "select"}

\* The length check let the secret pass: wpa_conf is the next thing called
Passed == pc = "wpa_conf"

\* The length check turned the secret away
Rejected == pc = "done" /\ ret = <<RC_INCORRECT_PASSWORD_LEN>>

\* C7, as claimed: with encrypt 'wep' and no custom file a secret passes
\* exactly when it has no hex marker and 5, 13 or 58 characters, or has the
\* marker and 13, 16 or 61 characters in all; every other secret gives
\* RC_INCORRECT_PASSWORD_LEN.
C7_WepLengthsAsClaimed ==
    (encrypt = "wep" /\ ~custom /\ ~seckey.none /\ Validated) =>
        IF \/ ~seckey.hex /\ seckey.len \in {5, 13, 58}
           \/ seckey.hex /\ seckey.len \in {13, 16, 61}
          THEN Passed
          ELSE Rejected

\* C7, amended: with encrypt 'wep' and no custom file a secret passes exactly
\* when it has no hex marker and 5, 13, 58, 10, 26 or 116 characters, or has
\* the marker and 13, 29 or 119 characters in all; every other secret gives
\* RC_INCORRECT_PASSWORD_LEN.
C7_WepLengths ==
    (encrypt = "wep" /\ ~custom /\ ~seckey.none /\ Validated) =>
        IF \/ ~seckey.hex /\ seckey.len \in {5, 13, 58, 10, 26, 116}
           \/ seckey.hex /\ seckey.len \in {13, 29, 119}
          THEN Passed
          ELSE Rejected

\* C7, witnessed: an unmarked WEP key of 26 hex digits passed and was
\* handed on with the marker prepended
C7_Witness ==
    /\ encrypt = "wep" /\ ~custom /\ Passed
    /\ seckey = Key(FALSE, 26)
    /\ conf_key = Key(TRUE, 29)

\* C8: with encrypt 'wpa' and no custom file a secret without the hex marker
\* gives RC_INCORRECT_PASSWORD_LEN exactly when it has fewer than 8 or more
\* than 63 characters, and goes on to wpa_conf otherwise; a secret with the
\* hex marker is never turned away for its length.
C8_WpaLengths ==
    (encrypt = "wpa" /\ ~custom /\ ~seckey.none /\ Validated) =>
        IF ~seckey.hex /\ (seckey.len < 8 \/ seckey.len > 63)
          THEN Rejected
          ELSE Passed /\ conf_key = seckey

\* C8, witnessed: a passphrase of 8 characters went on to wpa_conf
C8_Witness ==
    /\ encrypt = "wpa" /\ ~custom /\ Passed
    /\ seckey = Key(FALSE, 8)

(***************************************************************************)
(* Properties of IWList, checked under SpecScan.                           *)
(***************************************************************************)

\* C10: a cell whose block has no ESSID line is kept in self.data, and no
\* record of the list getList() returns comes from such a cell, whatever
\* unsecure and first are.
C10_HiddenNeverListed ==
    listed.status = "ok" =>
        \A i \in 1 .. Len(listed.list) :
            LET number == listed.list[i].number
            IN  number \in DOMAIN data /\ data[number].essid_line

\* C13: when every cell block of a scan output has a well-formed header,
\* self.data has one entry for each block, under the block's number, also
\* when a line inside a block lacks the tokens it should have.
C13_OneEntryPerCell ==
    (scan_pc = "ready" /\ \A i \in 1 .. Len(scanned) : scanned[i].hdr) =>
        /\ DOMAIN data = 1 .. Len(scanned)
        /\ \A i \in 1 .. Len(scanned) : data[i].Number = i

\* C15: refresh() on a scanner without cells scans until an attempt gives a
\* cell or the five seconds are over, sleeps 200 ms after every attempt
\* that gave no cell (empty output, or output without a cell that parses),
\* and makes no attempt after one that gave a cell.
C15_SleepAfterEveryEmptyAttempt ==
    /\ scan_pc = "refresh" => (DOMAIN data = {} /\ naps = tries)
    /\ scan_pc = "ready" => ~ENABLED ScanAttempt

(***************************************************************************)
(* Properties of getList(), checked under SpecList.                        *)
(***************************************************************************)

\* The cell getList() came to at place p of its loop
CellAt(p) == data[listed.order[p]]

\* The places of the loop whose cell is of network e and is not left out by
\* the unsecure option
Candidates(e) ==
    {p \in 1 .. Len(listed.order) :
        /\ CellAt(p).ESSID[1] = e
        /\ listed.unsecure => EncryptionOf(CellAt(p)) = "off"}

\* The least of a set of places
First(places) == CHOOSE p \in places : \A q \in places : p <= q

\* The place merging retains for network e: the first seen when its signal
\* is no integer, and otherwise the first seen of the greatest integer signal
Retained(e) ==
    LET c == Candidates(e)
        numeric == {p \in c : CellAt(p).Signal.num}
    IN  IF ~CellAt(First(c)).Signal.num
          THEN First(c)
          ELSE First({p \in numeric :
                        \A q \in numeric : CellAt(q).Signal.v <= CellAt(p).Signal.v})

\* C11: the list of getList() has at most one record for an essid, and the
\* record is the one merging retains: a duplicate seen later takes the place
\* only when both signals are integers and its own is strictly greater, so
\* equal signals and a signal that is no integer keep the earlier record.
C11_OneRecordPerEssid ==
    listed.status = "ok" =>
        LET L == listed.list
        IN  /\ \A i, j \in 1 .. Len(L) : L[i].essid = L[j].essid => i = j
            /\ \A i \in 1 .. Len(L) :
                   /\ Candidates(L[i].essid) # {}
                   /\ L[i].number = listed.order[Retained(L[i].essid)]
                   /\ L[i].signal = CellAt(Retained(L[i].essid)).Signal
            /\ ~listed.first =>
                   \A p \in 1 .. Len(listed.order) :
                       p \in Candidates(CellAt(p).ESSID[1]) =>
                           \E i \in 1 .. Len(L) : L[i].essid = CellAt(p).ESSID[1]

\* C11, witnessed: one essid seen with signal 10 and then with signal 20 is
\* listed once, with signal 20
C11_Witness ==
    /\ listed.status = "ok" /\ ~listed.first /\ ~listed.unsecure
    /\ Len(listed.order) = 2
    /\ CellAt(1).ESSID = CellAt(2).ESSID
    /\ CellAt(1).Signal = Num(10)
    /\ CellAt(2).Signal = Num(20)
    /\ Len(listed.list) = 1
    /\ listed.list[1].signal = Num(20)

\* The records of the call after merging, before they are sorted
Merged == CollectNets(data, listed.order, 1, listed.unsecure, <<>>).list

\* The elements of a sequence
Range(seq) == {seq[i] : i \in 1 .. Len(seq)}

\* q is the quality string of the ratio x/z
IsRatio(q, x, z) == q = QualityOf(x, z)

\* C12: the list of getList() holds the merged records, each once, in an
\* order of non-increasing quality ratio; with first it holds the first
\* record of such an order and no other.
C12_SortedByQuality ==
    listed.status = "ok" =>
        LET L == listed.list
        IN  /\ \A i, j \in 1 .. Len(L) : i < j =>
                   L[j].quality[1].v * L[i].quality[2].v
                       <= L[i].quality[1].v * L[j].quality[2].v
            /\ Range(L) \subseteq Range(Merged)
            /\ \A i, j \in 1 .. Len(L) : L[i] = L[j] => i = j
            /\ IF listed.first
                 THEN /\ Len(L) = (IF Merged = <<>> THEN 0 ELSE 1)
                      /\ \A r \in Range(Merged) : \A i \in 1 .. Len(L) :
                             r.quality[1].v * L[i].quality[2].v
                                 <= L[i].quality[1].v * r.quality[2].v
                 ELSE Len(L) = Len(Merged) /\ Range(L) = Range(Merged)

\* C12, witnessed: cells of qualities 70/70, 30/70 and 50/70, met in that
\* order, are listed as 70/70, 50/70, 30/70
C12_Witness ==
    /\ listed.status = "ok" /\ ~listed.first
    /\ Len(listed.order) = 3
    /\ IsRatio(CellAt(1).Quality, 70, 70)
    /\ IsRatio(CellAt(2).Quality, 30, 70)
    /\ IsRatio(CellAt(3).Quality, 50, 70)
    /\ Len(listed.list) = 3
    /\ IsRatio(listed.list[1].quality, 70, 70)
    /\ IsRatio(listed.list[2].quality, 50, 70)
    /\ IsRatio(listed.list[3].quality, 30, 70)

(***************************************************************************)
(* Properties of KwifiCache, checked under SpecCache.                      *)
(***************************************************************************)

\* What a call returned is the entry that was saved: each of its values
\* compares equal to the one given to save()
SameEntry(result, saved) ==
    /\ result # <<>>
    /\ PyEq(result[1].essid, saved.essid)
    /\ PyEq(result[1].encryption, saved.encryption)
    /\ PyEq(result[1].enckey, saved.enckey)
    /\ IF saved.conf = <<>> THEN result[1].conf = <<>>
       ELSE result[1].conf # <<>> /\ PyEq(result[1].conf[1], saved.conf[1])

\* C14: the cache is a register of one slot: get_latest() returns the values
\* of the last save() that no empty() followed and None when there is none;
\* get(e) returns that entry when its essid is e and None otherwise.
C14_SingleSlotRegister ==
    /\ cache_out.call = "get_latest" =>
           IF cache_saved = <<>> THEN cache_out.result = <<>>
           ELSE SameEntry(cache_out.result, cache_saved[1])
    /\ cache_out.call = "get" =>
           IF cache_saved # <<>> /\ cache_saved[1].essid = cache_out.arg[1]
             THEN SameEntry(cache_out.result, cache_saved[1])
             ELSE cache_out.result = <<>>

(***************************************************************************)
(* Properties of get_wireless_country, checked under SpecCountry.          *)
(***************************************************************************)

\* C17: whatever KANO_WIFI_COUNTRY and LANG hold, get_wireless_country
\* returns None or a code of two letters that is not US, and 'iw reg set' is
\* run exactly when a code was found and enable_driver is true.
C17_NeverUS ==
    country.called =>
        /\ \/ country.code = <<>>
           \/ Len(country.code[1]) = 2 /\ country.code[1] # <<"U", "S">>
        /\ country.reg_set # <<>> <=>
               (country.code # <<>> /\ country.enable_driver)

\* C18: with KANO_WIFI_COUNTRY set to the bare code ES, get_wireless_country
\* returns ES, whatever LANG holds.
C18_BareOverride ==
    (country.called /\ environ.KANO_WIFI_COUNTRY = << <<"E", "S">> >>) =>
        country.code = << <<"E", "S">> >>

(***************************************************************************)
(* Several callers of connect()                                            *)
(***************************************************************************)
ActiveCallers == {p \in Procs : CallerAt(p, "active")}

\* C21: at most one connection attempt is active system-wide: no two
\* processes are both between their interface reset and their return.
C21_AtMostOneActive == Cardinality(ActiveCallers) <= 1

OrderedActions ==
    <<"iwconfig power off", "ifconfig down", "iwconfig essid",
      "iwconfig mode managed", "ifconfig up", "write config",
      "wpa_supplicant", "wpa_cli">>

\* The commands run so far that are among the ordered ones
OrderedRun == SelectSeq(cmds, LAMBDA c : c \in Range(OrderedActions))

\* C24: on a wep or wpa connection that reaches the supplicant the external
\* actions come in this order: power-save off, interface down, ESSID set,
\* mode managed, interface up, configuration written, supplicant launched,
\* control client launched, classification of its events, and, only after a
\* CONNECTED classification, the DHCP wait.  The supplicant is not launched
\* before the configuration was written, nor the client before the daemon.
C24_ExternalActionsInOrder ==
    (~custom /\ encrypt \in {"wep", "wpa"}) =>
        /\ OrderedRun = SubSeq(OrderedActions, 1, Len(OrderedRun))
        /\ Has("wpa_supplicant") => wifi_conf_file = "generated"
        /\ cls # "none" => Has("wpa_cli")
        /\ (pc = "dhcp" \/ checks > 0) => cls = "connected"

(***************************************************************************)
(* The end of the read loop                                                *)
(***************************************************************************)
\* C23: once the client has written a line that is classified as terminal,
\* or has exited, the read loop of do_connect ends and, connect() taking its
\* steps, do_connect returns a result.
C23_EventuallyReturns ==
    (Has("wpa_cli") /\ (out_first # "none" \/ cli = "exited")) ~> pc = "done"

(***************************************************************************)
(* disconnect()                                                            *)
(***************************************************************************)
\* The step is a call of disconnect()
Disconnected == cache_out'.call = "disconnect"

\* The commands the step has run
NewCommands == SubSeq(cmds', Len(cmds) + 1, Len(cmds'))

\* In seq every b comes after some a
Precedes(a, b, seq) ==
    \A j \in 1 .. Len(seq) : seq[j] = b => \E i \in 1 .. j - 1 : seq[i] = a

\* The supplicant session is terminated before the ESSID and the mode of
\* the interface are cleared
TerminatedFirst ==
    /\ Precedes("wpa_cli terminate", "iwconfig essid off", NewCommands)
    /\ Precedes("wpa_cli terminate", "iwconfig mode managed", NewCommands)

C25_PollsThenOneCheck ==
    /\ sleeps <= timeout
    /\ checks \in {sleeps, sleeps + 1}
    /\ pc = "dhcp" => checks = sleeps /\ attempt = sleeps /\ ~saw_marker
    /\ (pc = "done" /\ checks > 0) =>
          /\ saw_marker <=> ret = <<RC_CONNECTED>>
          /\ ~saw_marker <=> ret = <<RC_NO_DHCP_LEASE>>
          /\ checks = sleeps => saw_marker
          /\ checks = sleeps + 1 => sleeps = timeout
          /\ timeout = 0 => checks = 1 /\ sleeps = 0

\* Every poll missed the marker and the last check found it
C25_Witness ==
    /\ pc = "done"
    /\ timeout = MaxTimeout
    /\ sleeps = timeout
    /\ checks = timeout + 1
    /\ ret = <<RC_CONNECTED>>

(***************************************************************************)
(* The scanner: getList() on what was parsed, and refresh() called again   *)
(***************************************************************************)
\* C22: getList() never fails because of a malformed record (an empty
\* quality, a quality not of the form x/y, a missing encryption field): it
\* returns a list.
C22_GetListNeverRaises == listed.status # "raised"

\* C28: while the scanner is constructed the country code is applied to the
\* driver before the scan whose records the scanner holds.
C28_CountryBeforeScan ==
    scanned # <<>> /\ CountryCode(environ) # <<>> =>
        country.reg_set = CountryCode(environ)

\* C29: refresh() on a scanner that holds at least one record makes no scan
\* attempt and leaves the map as it is; the records are only ever replaced
\* by a refresh that starts from an empty map.
C29_LoadedRefreshScansNothing ==
    /\ [](scan_pc \in Refreshing /\ DOMAIN data # {} => tries = 0 /\ naps = 0)
    /\ [][DOMAIN data # {} =>
            data' = data /\ scanned' = scanned /\ tries' = tries]_vars

C29_Witness ==
    /\ scan_pc = "again"
    /\ DOMAIN data # {}
    /\ data = parseRawData(scanned)
    /\ ENABLED RefreshLoaded

\* The texts of the sample IE and Extra lines that hold "wpa" in some case
HoldsWpaAnyCase(text) == text \in {"WPA Version 1", "wpa_ie=dd16"}

\* The lines of the block a listed record was made from
BlockOf(wnet) == scanned[wnet.number]

\* C30: every record of getList() has an encryption class among off, wep
\* and wpa: off exactly when the raw token of its cell is 'off'; otherwise
\* wpa when an IE or Extra entry holds 'WPA' in any case and wep when none
\* does; with unsecure=true only records of class off are returned.
C30_EncryptionClass ==
    listed.status = "ok" =>
        \A i \in 1 .. Len(listed.list) :
            LET wnet == listed.list[i]
                block == BlockOf(wnet)
                texts == Range(block.ie) \cup Range(block.extra)
            IN  /\ wnet.encryption \in {"off", "wep", "wpa"}
                /\ wnet.encryption = "off" <=> block.enc = <<"off">>
                /\ wnet.encryption = "wpa" <=>
                       /\ block.enc # <<"off">>
                       /\ \E t \in texts : HoldsWpaAnyCase(t)
                /\ listed.unsecure => wnet.encryption = "off"

C30_Witness ==
    /\ listed.status = "ok"
    /\ \E i \in 1 .. Len(listed.list) :
          /\ listed.list[i].encryption = "wpa"
          /\ BlockOf(listed.list[i]).extra = <<"wpa_ie=dd16">>

====
